---- MODULE Spec2Model ----
(***************************************************************************)
(* Model of the parking-lot registry of src/src/main.rs: the ParkingLot    *)
(* struct (spots, reservations) and its methods, called in any order with  *)
(* any usize arguments (Spec), and the menu loop of main, which reads      *)
(* lines of text and calls the methods (SpecMain).                         *)
(***************************************************************************)
EXTENDS Integers, Sequences, FiniteSets, TLC

\* Largest capacity ParkingLot::new is called with.
MaxSize == 3

\* Width of the usize type in the model (the machine word, scaled down).
UsizeBits == 3

\* usize::MAX
UsizeMax == (2 ^ UsizeBits) - 1

\* The values of type usize: every spot id and position a caller can pass.
Usize == 0 .. UsizeMax

\* The reservation details a caller passes (String).
Details == {"Alice", "Bob"}

\* The &'static str error values of the methods.
ErrNoAvailable == "No available spots"
ErrInvalidId == "Invalid spot ID"
ErrUnavailable == "Spot already occupied or reserved"
ErrNotFound == "Spot not found or already empty"
ErrNotReserved == "Invalid spot ID or spot not reserved"

Errors == {ErrNoAvailable, ErrInvalidId, ErrUnavailable, ErrNotFound, ErrNotReserved}

VARIABLES
    spots,          \* ParkingLot.spots: Vec<ParkingSpot>; spots[i+1] is index i
    reservations,   \* ParkingLot.reservations: HashMap<usize, String>
    op,             \* the method called last
    arg,            \* its arguments
    result,         \* "Ok", an error string, "Some" or "None"
    ret,            \* the id it returned: <<id>>, or <<>> when it returned none
    held,           \* ids park_car returned and remove_car has not released since
    progress,       \* calls made so far, while they follow Scenario; else Diverged
    trip,           \* the registry before a reserve_spot that a cancel may follow
    pc,             \* main: where the loop is ("menu", "spot", "details", ...)
    choice,         \* main: the menu choice parsed, <<n>>, or <<>>
    spotNum,        \* main: the spot number parsed for choice 6, <<n>>, or <<>>
    line,           \* main: the line read_line returned last
    out             \* main: what the last step printed

\* The history variables of Spec.
histVars == <<held, progress, trip>>

\* The variables of main's loop.
mainVars == <<pc, choice, spotNum, line, out>>

vars == <<spots, reservations, op, arg, result, ret, held, progress, trip,
          pc, choice, spotNum, line, out>>

----------------------------------------------------------------------------
\* ParkingSpot::new
ParkingSpot(id) == [id |-> id, occupied |-> FALSE, reserved |-> FALSE]

\* HashMap::new
EmptyMap == [k \in {} |-> ""]

\* HashMap::insert
Insert(m, k, v) == [x \in (DOMAIN m) \cup {k} |-> IF x = k THEN v ELSE m[x]]

\* HashMap::remove of the wrong key.
RemoveWrongKey(m, k) == [x \in (DOMAIN m) \ {k + 1} |-> m[x]]

\* HashMap::remove
Remove(m, k) == [x \in (DOMAIN m) \ {k} |-> m[x]]

\* ParkingLot::new with the loop `for i in 0..=size`: one spot too many.
NewOneMore(size) ==
    [spots |-> [i \in 1 .. size + 1 |-> ParkingSpot(i - 1)],
     reservations |-> EmptyMap]

\* ParkingLot::new that numbers the spots from 1.
NewIdsFromOne(size) ==
    [spots |-> [i \in 1 .. size |-> ParkingSpot(i)],
     reservations |-> EmptyMap]

\* ParkingLot::new
New(size) ==
    [spots |-> [i \in 1 .. size |-> ParkingSpot(i - 1)],
     reservations |-> EmptyMap]

\* The closure |spot| !spot.occupied && !spot.reserved
IsAvailable(spot) == ~spot.occupied /\ ~spot.reserved

\* Iterator::find over a Vec, given the indices (1-based) of the elements that
\* pass the closure: the first of them, 0 when there is none.
Find(hits) ==
    IF hits = {} THEN 0
    ELSE CHOOSE i \in hits : \A j \in hits : i <= j

\* ParkingLot::find_available_spot
find_available_spot(s) == Find({i \in 1 .. Len(s) : IsAvailable(s[i])})

\* The for loop of find_nearest_available_spot, from element i on, with the
\* running nearest_spot (an index, 0 for None) and min_distance.
RECURSIVE NearestScan(_, _, _, _, _)
NearestScan(s, position, i, nearest_spot, min_distance) ==
    IF i > Len(s) THEN nearest_spot
    ELSE IF ~s[i].occupied /\ ~s[i].reserved
         THEN LET distance == IF s[i].id >= position
                              THEN s[i].id - position
                              ELSE position - s[i].id
              IN  IF distance < min_distance
                  THEN NearestScan(s, position, i + 1, i, distance)
                  ELSE NearestScan(s, position, i + 1, nearest_spot, min_distance)
         ELSE NearestScan(s, position, i + 1, nearest_spot, min_distance)

\* The scan with `distance <= min_distance`: a later spot at the same distance
\* replaces the earlier one.
RECURSIVE NearestScanLastWins(_, _, _, _, _)
NearestScanLastWins(s, position, i, nearest_spot, min_distance) ==
    IF i > Len(s) THEN nearest_spot
    ELSE IF ~s[i].occupied /\ ~s[i].reserved
         THEN LET distance == IF s[i].id >= position
                              THEN s[i].id - position
                              ELSE position - s[i].id
              IN  IF distance <= min_distance
                  THEN NearestScanLastWins(s, position, i + 1, i, distance)
                  ELSE NearestScanLastWins(s, position, i + 1, nearest_spot, min_distance)
         ELSE NearestScanLastWins(s, position, i + 1, nearest_spot, min_distance)

\* find_nearest_available_spot with the tie broken towards the higher id.
find_nearest_last_wins(s, position) ==
    NearestScanLastWins(s, position, 1, 0, UsizeMax)

\* ParkingLot::find_nearest_available_spot: the index of the spot returned,
\* 0 for None.
find_nearest_available_spot(s, position) ==
    NearestScan(s, position, 1, 0, UsizeMax)

\* What a method leaves behind: the registry and the value returned.
Outcome(s, r, res, id) ==
    [spots |-> s, reservations |-> r, result |-> res, ret |-> id]

\* park_car whose closure tests only !spot.reserved: it takes occupied spots.
park_car_ignores_occupied(s, r) ==
    LET i == Find({k \in 1 .. Len(s) : ~s[k].reserved})
    IN  IF i # 0
        THEN Outcome([s EXCEPT ![i].occupied = TRUE], r, "Ok", <<s[i].id>>)
        ELSE Outcome(s, r, ErrNoAvailable, <<>>)

\* park_car that takes the last available spot instead of the first.
park_car_last(s, r) ==
    LET hits == {i \in 1 .. Len(s) : IsAvailable(s[i])}
    IN  IF hits # {}
        THEN LET i == CHOOSE k \in hits : \A j \in hits : j <= k
             IN  Outcome([s EXCEPT ![i].occupied = TRUE], r, "Ok", <<s[i].id>>)
        ELSE Outcome(s, r, ErrNoAvailable, <<>>)

\* park_car whose closure tests only !spot.occupied: it takes reserved spots.
park_car_takes_reserved(s, r) ==
    LET i == Find({k \in 1 .. Len(s) : ~s[k].occupied})
    IN  IF i # 0
        THEN Outcome([s EXCEPT ![i].occupied = TRUE], r, "Ok", <<s[i].id>>)
        ELSE Outcome(s, r, ErrNoAvailable, <<>>)

\* ParkingLot::park_car
park_car(s, r) ==
    LET i == Find({k \in 1 .. Len(s) : IsAvailable(s[k])})
    IN  IF i # 0
        THEN Outcome([s EXCEPT ![i].occupied = TRUE], r, "Ok", <<s[i].id>>)
        ELSE Outcome(s, r, ErrNoAvailable, <<>>)

\* park_car_in_spot that tests only spot.occupied: it parks in reserved spots.
park_car_in_spot_ignores_reserved(s, r, id) ==
    IF id >= Len(s) THEN Outcome(s, r, ErrInvalidId, <<>>)
    ELSE IF s[id + 1].occupied
         THEN Outcome(s, r, ErrUnavailable, <<>>)
         ELSE Outcome([s EXCEPT ![id + 1].occupied = TRUE], r, "Ok", <<>>)

\* park_car_in_spot that reports an out-of-range id as an unavailable spot.
park_car_in_spot_one_error(s, r, id) ==
    IF id >= Len(s) THEN Outcome(s, r, ErrUnavailable, <<>>)
    ELSE IF s[id + 1].occupied \/ s[id + 1].reserved
         THEN Outcome(s, r, ErrUnavailable, <<>>)
         ELSE Outcome([s EXCEPT ![id + 1].occupied = TRUE], r, "Ok", <<>>)

\* ParkingLot::park_car_in_spot
park_car_in_spot(s, r, id) ==
    IF id >= Len(s) THEN Outcome(s, r, ErrInvalidId, <<>>)
    ELSE IF s[id + 1].occupied \/ s[id + 1].reserved
         THEN Outcome(s, r, ErrUnavailable, <<>>)
         ELSE Outcome([s EXCEPT ![id + 1].occupied = TRUE], r, "Ok", <<>>)

\* remove_car that also matches reserved spots: it releases a reservation.
remove_car_matches_reserved(s, r, id) ==
    LET i == Find({k \in 1 .. Len(s) :
                       s[k].id = id /\ (s[k].occupied \/ s[k].reserved)})
    IN  IF i # 0
        THEN Outcome([s EXCEPT ![i].occupied = FALSE, ![i].reserved = FALSE], r, "Ok", <<>>)
        ELSE Outcome(s, r, ErrNotFound, <<>>)

\* ParkingLot::remove_car
remove_car(s, r, id) ==
    LET i == Find({k \in 1 .. Len(s) : s[k].id = id /\ s[k].occupied})
    IN  IF i # 0
        THEN Outcome([s EXCEPT ![i].occupied = FALSE], r, "Ok", <<>>)
        ELSE Outcome(s, r, ErrNotFound, <<>>)

\* reserve_spot that inserts the details before it tests the spot's flags.
reserve_spot_inserts_first(s, r, id, d) ==
    IF id >= Len(s) THEN Outcome(s, r, ErrInvalidId, <<>>)
    ELSE IF s[id + 1].occupied \/ s[id + 1].reserved
         THEN Outcome(s, Insert(r, id, d), ErrUnavailable, <<>>)
         ELSE Outcome([s EXCEPT ![id + 1].reserved = TRUE], Insert(r, id, d), "Ok", <<>>)

\* reserve_spot that tests only spot.occupied: it reserves a reserved spot again.
reserve_spot_ignores_reserved(s, r, id, d) ==
    IF id >= Len(s) THEN Outcome(s, r, ErrInvalidId, <<>>)
    ELSE IF s[id + 1].occupied
         THEN Outcome(s, r, ErrUnavailable, <<>>)
         ELSE Outcome([s EXCEPT ![id + 1].reserved = TRUE], Insert(r, id, d), "Ok", <<>>)

\* ParkingLot::reserve_spot
reserve_spot(s, r, id, d) ==
    IF id >= Len(s) THEN Outcome(s, r, ErrInvalidId, <<>>)
    ELSE IF s[id + 1].occupied \/ s[id + 1].reserved
         THEN Outcome(s, r, ErrUnavailable, <<>>)
         ELSE Outcome([s EXCEPT ![id + 1].reserved = TRUE], Insert(r, id, d), "Ok", <<>>)

\* cancel_reservation that clears the flag and leaves the map entry behind.
cancel_reservation_keeps_entry(s, r, id) ==
    IF id >= Len(s) \/ ~s[id + 1].reserved
    THEN Outcome(s, r, ErrNotReserved, <<>>)
    ELSE Outcome([s EXCEPT ![id + 1].reserved = FALSE], r, "Ok", <<>>)

\* cancel_reservation with a separate error for an id out of range.
cancel_reservation_two_errors(s, r, id) ==
    IF id >= Len(s) THEN Outcome(s, r, ErrInvalidId, <<>>)
    ELSE IF ~s[id + 1].reserved
         THEN Outcome(s, r, ErrNotReserved, <<>>)
         ELSE Outcome([s EXCEPT ![id + 1].reserved = FALSE], Remove(r, id), "Ok", <<>>)

\* cancel_reservation that clears the whole map instead of removing one entry.
cancel_reservation_clears_map(s, r, id) ==
    IF id >= Len(s) \/ ~s[id + 1].reserved
    THEN Outcome(s, r, ErrNotReserved, <<>>)
    ELSE Outcome([s EXCEPT ![id + 1].reserved = FALSE], EmptyMap, "Ok", <<>>)

\* ParkingLot::cancel_reservation
cancel_reservation(s, r, id) ==
    IF id >= Len(s) \/ ~s[id + 1].reserved
    THEN Outcome(s, r, ErrNotReserved, <<>>)
    ELSE Outcome([s EXCEPT ![id + 1].reserved = FALSE], Remove(r, id), "Ok", <<>>)

\* The status list_spots prints for a spot.
Status(spot) ==
    IF spot.occupied THEN "Occupied"
    ELSE IF spot.reserved THEN "Reserved"
    ELSE "Available"

\* ParkingLot::list_spots: the (id, status) lines printed, in order.
list_spots(s) == [i \in 1 .. Len(s) |-> <<s[i].id, Status(s[i])>>]

----------------------------------------------------------------------------
\* The scenario of the specification's section 8, as calls on a lot of 3 spots.
Scenario ==
    << [op |-> "park_car", arg |-> <<>>],
       [op |-> "reserve_spot", arg |-> <<1, "Alice">>],
       [op |-> "find_nearest_available_spot", arg |-> <<2>>],
       [op |-> "remove_car", arg |-> <<0>>],
       [op |-> "cancel_reservation", arg |-> <<1>>] >>

\* progress once a call has left the scenario.
Diverged == Len(Scenario) + 1

\* progress after the call (o, a).
Follow(o, a) ==
    IF progress < Len(Scenario) /\ Scenario[progress + 1] = [op |-> o, arg |-> a]
    THEN progress + 1
    ELSE Diverged

\* trip when no reserve_spot is being followed.
NoTrip == [stage |-> "none", id |-> 0, spots |-> <<>>, reservations |-> EmptyMap]

\* trip after the call (o, a) with outcome outc: a successful reserve_spot(id)
\* records the registry it started from; a cancel_reservation(id) right after
\* it keeps the record; any other call drops it.
Track(o, a, outc) ==
    IF o = "reserve_spot" /\ outc.result = "Ok"
    THEN [stage |-> "reserved", id |-> a[1],
          spots |-> spots, reservations |-> reservations]
    ELSE IF o = "cancel_reservation" /\ trip.stage = "reserved" /\ a[1] = trip.id
         THEN [trip EXCEPT !.stage = "cancelled"]
         ELSE NoTrip

\* The registry and the returned value after method o, called with arguments
\* a, has left outcome outc.
Effect(o, a, outc) ==
    /\ spots' = outc.spots
    /\ reservations' = outc.reservations
    /\ op' = o
    /\ arg' = a
    /\ result' = outc.result
    /\ ret' = outc.ret

\* A call of method o with arguments a that leaves outcome outc, made by a
\* caller other than main's loop.
Call(o, a, outc) ==
    /\ Effect(o, a, outc)
    /\ progress' = Follow(o, a)
    /\ trip' = Track(o, a, outc)
    /\ UNCHANGED mainVars

\* The state after ParkingLot::new(size), before the first call.
Constructed(size) ==
    /\ spots = New(size).spots
    /\ reservations = New(size).reservations
    /\ op = "new"
    /\ arg = <<size>>
    /\ result = "Ok"
    /\ ret = <<>>
    /\ held = {}
    /\ progress = 0
    /\ trip = NoTrip
    /\ pc = "menu"
    /\ choice = <<>>
    /\ spotNum = <<>>
    /\ line = <<>>
    /\ out = <<>>

Init == \E size \in 0 .. MaxSize : Constructed(size)

ParkCar ==
    LET outc == park_car(spots, reservations)
    IN  /\ Call("park_car", <<>>, outc)
        /\ held' = IF outc.result = "Ok" THEN held \cup {outc.ret[1]} ELSE held

ParkCarInSpot ==
    \E id \in Usize :
        /\ Call("park_car_in_spot", <<id>>, park_car_in_spot(spots, reservations, id))
        /\ UNCHANGED held

RemoveCar ==
    \E id \in Usize :
        LET outc == remove_car(spots, reservations, id)
        IN  /\ Call("remove_car", <<id>>, outc)
            /\ held' = IF outc.result = "Ok" THEN held \ {id} ELSE held

ListSpots ==
    /\ Call("list_spots", <<>>, Outcome(spots, reservations, "Ok", <<>>))
    /\ UNCHANGED held

\* Menu choice 5 as an allocation: the spot found is marked occupied.
FindNearestAllocates ==
    \E position \in Usize :
        LET i == find_nearest_available_spot(spots, position)
        IN  /\ Call("find_nearest_available_spot", <<position>>,
                    IF i # 0
                    THEN Outcome([spots EXCEPT ![i].occupied = TRUE], reservations,
                                 "Some", <<spots[i].id>>)
                    ELSE Outcome(spots, reservations, "None", <<>>))
            /\ UNCHANGED held

FindNearest ==
    \E position \in Usize :
        LET i == find_nearest_available_spot(spots, position)
        IN  /\ Call("find_nearest_available_spot", <<position>>,
                    IF i # 0
                    THEN Outcome(spots, reservations, "Some", <<spots[i].id>>)
                    ELSE Outcome(spots, reservations, "None", <<>>))
            /\ UNCHANGED held

ReserveSpot ==
    \E id \in Usize, d \in Details :
        /\ Call("reserve_spot", <<id, d>>, reserve_spot(spots, reservations, id, d))
        /\ UNCHANGED held

CancelReservation ==
    \E id \in Usize :
        /\ Call("cancel_reservation", <<id>>, cancel_reservation(spots, reservations, id))
        /\ UNCHANGED held

Next ==
    \/ ParkCar
    \/ ParkCarInSpot
    \/ RemoveCar
    \/ ListSpots
    \/ FindNearest
    \/ ReserveSpot
    \/ CancelReservation

Spec == Init /\ [][Next]_vars

----------------------------------------------------------------------------
\* main: the menu loop. A line of text is a sequence of characters.

\* The capacity main constructs the lot with (ParkingLot::new(10), scaled down).
MainSize == 3

\* Width of the u32 type in the model (scaled down).
U32Bits == 4

\* u32::MAX
U32Max == (2 ^ U32Bits) - 1

\* The decimal digits, in order: Digits[d + 1] is the character of d.
Digits == <<"0", "1", "2", "3", "4", "5", "6", "7", "8", "9">>

\* char::is_whitespace, on the characters of the model.
IsSpace(c) == c \in {" ", "\n"}

\* str::trim_start
RECURSIVE TrimStart(_)
TrimStart(l) ==
    IF l # <<>> /\ IsSpace(Head(l)) THEN TrimStart(Tail(l)) ELSE l

\* str::trim_end
RECURSIVE TrimEnd(_)
TrimEnd(l) ==
    IF l # <<>> /\ IsSpace(l[Len(l)]) THEN TrimEnd(SubSeq(l, 1, Len(l) - 1)) ELSE l

\* str::trim
Trim(l) == TrimEnd(TrimStart(l))

\* The digit loop of from_str_radix(.., 10) for an unsigned type with largest
\* value max: <<value>>, or <<>> for an invalid digit or an overflow.
RECURSIVE Accumulate(_, _, _)
Accumulate(digits, acc, max) ==
    IF digits = <<>> THEN <<acc>>
    ELSE IF \E d \in 1 .. Len(Digits) : Digits[d] = Head(digits)
         THEN LET d == (CHOOSE k \in 1 .. Len(Digits) : Digits[k] = Head(digits)) - 1
              IN  IF acc * 10 + d > max THEN <<>>
                  ELSE Accumulate(Tail(digits), acc * 10 + d, max)
         ELSE <<>>

\* str::parse::<u32> / <usize> of text: <<value>> for Ok(value), <<>> for Err.
\* An empty text and a lone sign are errors; a leading "+" is accepted; "-" is
\* an invalid digit of an unsigned type.
ParseUnsigned(text, max) ==
    IF text = <<>> THEN <<>>
    ELSE IF Len(text) = 1 /\ Head(text) \in {"+", "-"} THEN <<>>
    ELSE IF Head(text) = "+" THEN Accumulate(Tail(text), 0, max)
    ELSE Accumulate(text, 0, max)

\* choice.trim().parse::<u32>()
ParseChoice(l) == ParseUnsigned(Trim(l), U32Max)

\* spot.trim().parse::<usize>() and position.trim().parse::<usize>()
ParseUsize(l) == ParseUnsigned(Trim(l), UsizeMax)

\* The lines read_line can return at a numeric prompt: each digit on a line of
\* its own, a number of two digits, a number within blanks, signed numbers,
\* text that is no number, an empty line, and <<>> at the end of the input.
Lines ==
    {<<Digits[d], "\n">> : d \in 1 .. Len(Digits)}
        \cup { <<"1", "2", "\n">>, <<" ", "2", " ", "\n">>, <<"+", "3", "\n">>,
               <<"-", "1", "\n">>, <<"a", "\n">>, <<"2", " ", "3", "\n">>,
               <<"\n">>, <<>> }

\* The lines read_line can return at the prompt for reservation details.
DetailLines == { <<"a", "\n">>, <<" ", "b", " ", "\n">> }

\* The menu choices that prompt for a number before they call a method.
AskingChoices == {2, 3, 5, 6, 7}

\* The messages println! writes.
MsgInvalidSpot == "Invalid input. Please enter a valid spot number."
MsgInvalidPosition == "Invalid input. Please enter a valid position."
MsgInvalidChoice == "Invalid choice. Please choose a valid option."

\* What main prints for the outcome outc of method o called with a.
Printed(o, a, outc) ==
    IF outc.result \in Errors THEN <<"Error: {}", outc.result>>
    ELSE IF o = "park_car" THEN <<"Car parked in spot {}", outc.ret[1]>>
    ELSE IF o = "park_car_in_spot" THEN <<"Car parked in spot {}", a[1]>>
    ELSE IF o = "remove_car" THEN <<"Car removed from spot {}", a[1]>>
    ELSE IF o = "find_nearest_available_spot"
         THEN IF outc.result = "Some"
              THEN <<"Nearest available spot is {}", outc.ret[1]>>
              ELSE <<"No available spots">>
    ELSE IF o = "reserve_spot" THEN <<"Spot {} reserved", a[1]>>
    ELSE IF o = "cancel_reservation" THEN <<"Reservation for spot {} canceled", a[1]>>
    ELSE <<"Parking lot status:">> \o list_spots(outc.spots)

\* The registry and the last call stay as they are.
NoCall == UNCHANGED <<spots, reservations, op, arg, result, ret, held, progress, trip>>

\* The end of an iteration of the loop: its locals go out of scope and the
\* menu is shown again.
Loop ==
    /\ pc' = "menu"
    /\ choice' = <<>>
    /\ spotNum' = <<>>

\* main calls method o with arguments a, prints the outcome and loops. The
\* variables op, arg, result and ret observe the calls of other callers.
MainCall(o, a, outc) ==
    /\ spots' = outc.spots
    /\ reservations' = outc.reservations
    /\ UNCHANGED <<op, arg, result, ret>>
    /\ UNCHANGED histVars
    /\ out' = Printed(o, a, outc)
    /\ Loop

InitMain == Constructed(MainSize)

\* The menu line does not parse as u32: `Err(_) => continue`.
MainChoiceUnparsed ==
    /\ pc = "menu"
    /\ \E l \in Lines :
           /\ ParseChoice(l) = <<>>
           /\ line' = l
           /\ out' = <<>>
           /\ Loop
           /\ NoCall

\* Choice 1: park_car.
MainParkCar ==
    /\ pc = "menu"
    /\ \E l \in Lines :
           /\ ParseChoice(l) = <<1>>
           /\ line' = l
           /\ MainCall("park_car", <<>>, park_car(spots, reservations))

\* Choices 2, 3, 5, 6, 7: prompt for the spot number or the position.
MainAsk ==
    /\ pc = "menu"
    /\ \E l \in Lines :
           /\ ParseChoice(l) # <<>>
           /\ ParseChoice(l)[1] \in AskingChoices
           /\ line' = l
           /\ choice' = ParseChoice(l)
           /\ out' = <<"Enter: ">>
           /\ pc' = "spot"
           /\ UNCHANGED spotNum
           /\ NoCall

\* Choice 4: list_spots.
MainList ==
    /\ pc = "menu"
    /\ \E l \in Lines :
           /\ ParseChoice(l) = <<4>>
           /\ line' = l
           /\ MainCall("list_spots", <<>>, Outcome(spots, reservations, "Ok", <<>>))

\* Choice 8: break.
MainExit ==
    /\ pc = "menu"
    /\ \E l \in Lines :
           /\ ParseChoice(l) = <<8>>
           /\ line' = l
           /\ choice' = <<8>>
           /\ out' = <<"Exiting...">>
           /\ pc' = "exited"
           /\ UNCHANGED spotNum
           /\ NoCall

\* Choice 9: display_help.
MainHelp ==
    /\ pc = "menu"
    /\ \E l \in Lines :
           /\ ParseChoice(l) = <<9>>
           /\ line' = l
           /\ out' = <<"Parking Lot Help:">>
           /\ Loop
           /\ NoCall

\* Any other number: the default arm.
MainInvalidChoice ==
    /\ pc = "menu"
    /\ \E l \in Lines :
           /\ ParseChoice(l) # <<>>
           /\ ParseChoice(l)[1] \notin 1 .. 9
           /\ line' = l
           /\ out' = <<MsgInvalidChoice>>
           /\ Loop
           /\ NoCall

\* The invalid-input arm with `unwrap_or(0)` in place of the match: the method
\* of the choice is called on spot 0.
MainSpotDefaultsToZero ==
    /\ pc = "spot"
    /\ \E l \in Lines :
           /\ ParseUsize(l) = <<>>
           /\ line' = l
           /\ MainCall("park_car_in_spot", <<0>>,
                       park_car_in_spot(spots, reservations, 0))

\* The spot number or position does not parse as usize: print and continue.
MainSpotInvalid ==
    /\ pc = "spot"
    /\ \E l \in Lines :
           /\ ParseUsize(l) = <<>>
           /\ line' = l
           /\ out' = IF choice = <<5>> THEN <<MsgInvalidPosition>>
                                       ELSE <<MsgInvalidSpot>>
           /\ Loop
           /\ NoCall

\* Choices 2, 3, 5, 7 with a number parsed: call the method of the choice.
MainSpotCall ==
    /\ pc = "spot"
    /\ choice # <<6>>
    /\ \E l \in Lines :
           /\ ParseUsize(l) # <<>>
           /\ line' = l
           /\ LET n == ParseUsize(l)[1]
              IN  IF choice = <<2>>
                  THEN MainCall("park_car_in_spot", <<n>>,
                                park_car_in_spot(spots, reservations, n))
                  ELSE IF choice = <<3>>
                  THEN MainCall("remove_car", <<n>>,
                                remove_car(spots, reservations, n))
                  ELSE IF choice = <<5>>
                  THEN LET i == find_nearest_available_spot(spots, n)
                       IN  MainCall("find_nearest_available_spot", <<n>>,
                                    IF i # 0
                                    THEN Outcome(spots, reservations, "Some",
                                                 <<spots[i].id>>)
                                    ELSE Outcome(spots, reservations, "None", <<>>))
                  ELSE MainCall("cancel_reservation", <<n>>,
                                cancel_reservation(spots, reservations, n))

\* Choice 6 with a number parsed: prompt for the details.
MainAskDetails ==
    /\ pc = "spot"
    /\ choice = <<6>>
    /\ \E l \in Lines :
           /\ ParseUsize(l) # <<>>
           /\ line' = l
           /\ spotNum' = ParseUsize(l)
           /\ out' = <<"Enter reservation details: ">>
           /\ pc' = "details"
           /\ UNCHANGED choice
           /\ NoCall

\* Choice 6, the details line: reserve_spot(spot, details.trim()).
MainReserve ==
    /\ pc = "details"
    /\ \E l \in DetailLines :
           /\ line' = l
           /\ MainCall("reserve_spot", <<spotNum[1], Trim(l)>>,
                       reserve_spot(spots, reservations, spotNum[1], Trim(l)))

\* read_line returns Err (the input is no valid UTF-8, or the read fails):
\* unwrap panics.
MainReadFails ==
    /\ pc \in {"menu", "spot", "details"}
    /\ pc' = "panicked"
    /\ out' = <<"panicked">>
    /\ UNCHANGED <<choice, spotNum, line>>
    /\ NoCall

NextMain ==
    \/ MainChoiceUnparsed
    \/ MainParkCar
    \/ MainAsk
    \/ MainList
    \/ MainExit
    \/ MainHelp
    \/ MainInvalidChoice
    \/ MainSpotInvalid
    \/ MainSpotCall
    \/ MainAskDetails
    \/ MainReserve
    \/ MainReadFails

SpecMain == InitMain /\ [][NextMain]_vars

----------------------------------------------------------------------------
\* Helpers of the properties.

\* The indices of the Free spots of s.
FreeIdx(s) == {i \in 1 .. Len(s) : ~s[i].occupied /\ ~s[i].reserved}

\* |a - b|
Abs(a, b) == IF a >= b THEN a - b ELSE b - a

TypeOK ==
    /\ Len(spots) \in 0 .. MaxSize
    /\ \A i \in 1 .. Len(spots) :
           spots[i].occupied \in BOOLEAN /\ spots[i].reserved \in BOOLEAN
    /\ DOMAIN reservations \subseteq Usize
    /\ result \in Errors \cup {"Ok", "Some", "None"}
    /\ progress \in 0 .. Diverged

\* The spot of s whose id field is id.
SpotWithId(s, id) == s[CHOOSE i \in 1 .. Len(s) : s[i].id = id]

\* The lowest id among the Free spots of s (for s with a Free spot).
MinFreeId(s) ==
    LET ids == {s[i].id : i \in FreeIdx(s)}
    IN  CHOOSE m \in ids : \A k \in ids : m <= k

----------------------------------------------------------------------------
\* C1: in every reachable state the reservations map has an entry for an id
\* if and only if the spot with that id exists and has its reserved flag set.
C1_EntryIffReserved ==
    \A id \in Usize :
        (id \in DOMAIN reservations)
            <=> (\E i \in 1 .. Len(spots) : spots[i].id = id /\ spots[i].reserved)

\* A reservation was cancelled while another spot is still reserved.
C1_Witness ==
    /\ op = "cancel_reservation"
    /\ result = "Ok"
    /\ DOMAIN reservations # {}

\* C2: in every reachable state no spot has both its occupied and its
\* reserved flag set.
C2_NeverOccupiedAndReserved ==
    \A i \in 1 .. Len(spots) : ~(spots[i].occupied /\ spots[i].reserved)

\* park_car passed over a reserved spot and parked behind it.
C2_Witness ==
    /\ op = "park_car"
    /\ result = "Ok"
    /\ \E i \in 1 .. Len(spots) : spots[i].reserved /\ spots[i].id < ret[1]

\* C3 (as claimed): the spot the nearest-spot search returns is no longer Free
\* after the call, and the scenario on 3 spots ends with spot 2 Occupied.
C3_NearestMarksOccupied ==
    /\ (op = "find_nearest_available_spot" /\ result = "Some")
           => ~IsAvailable(SpotWithId(spots, ret[1]))
    /\ (progress = Len(Scenario) /\ Len(spots) = 3)
           => list_spots(spots)
                = << <<0, "Available">>, <<1, "Available">>, <<2, "Occupied">> >>

\* C3 (amended): the nearest-spot search only reports the spot: the spot it
\* returns is still Free after the call, and the scenario on 3 spots ends
\* with all three spots Free.
C3_NearestOnlyFinds ==
    /\ (op = "find_nearest_available_spot" /\ result = "Some")
           => IsAvailable(SpotWithId(spots, ret[1]))
    /\ (progress = Len(Scenario) /\ Len(spots) = 3)
           => list_spots(spots)
                = << <<0, "Available">>, <<1, "Available">>, <<2, "Available">> >>

\* The scenario has run to its end on a lot of 3 spots.
C3_Witness ==
    /\ progress = Len(Scenario)
    /\ Len(spots) = 3
    /\ op = "cancel_reservation"
    /\ result = "Ok"

\* C4: a call that returns an error leaves every spot and the whole
\* reservations map as they were before the call.
C4_ErrorLeavesStateUnchanged ==
    [][result' \in Errors => (spots' = spots /\ reservations' = reservations)]_vars

\* park_car failed on a lot that is full with parked cars and reservations.
C4_Witness ==
    /\ op = "park_car"
    /\ result = ErrNoAvailable
    /\ DOMAIN reservations # {}
    /\ \E i \in 1 .. Len(spots) : spots[i].occupied

\* C5: park_car succeeds exactly when a spot is Free; it then returns the
\* lowest Free id and that spot becomes Occupied (a Reserved spot is never
\* chosen); with no Free spot it fails with "No available spots".
C5_ParkCarLowestFree ==
    [][op' = "park_car" =>
        IF FreeIdx(spots) # {}
        THEN /\ result' = "Ok"
             /\ ret' = <<MinFreeId(spots)>>
             /\ ~SpotWithId(spots, ret'[1]).reserved
             /\ Status(SpotWithId(spots', ret'[1])) = "Occupied"
        ELSE /\ result' = ErrNoAvailable
             /\ ret' = <<>>]_vars

\* park_car returned an id above 0 while a higher Free spot remains.
C5_Witness ==
    /\ op = "park_car"
    /\ result = "Ok"
    /\ ret[1] > 0
    /\ \E i \in FreeIdx(spots) : spots[i].id > ret[1]

\* C6: park_car never returns an id it has returned before unless remove_car
\* of that id has succeeded in between.
C6_NoRepeatUntilReleased ==
    [][(op' = "park_car" /\ result' = "Ok") => ret'[1] \notin held]_vars

\* park_car returned an id again after its release, while another is held.
C6_Witness ==
    /\ op = "park_car"
    /\ result = "Ok"
    /\ ret = <<0>>
    /\ Cardinality(held) >= 2

\* C7: for every position, the spot the nearest-spot search returns is Free,
\* no Free spot is closer to the position, and among the Free spots at the
\* same distance it is the one with the lowest id.
C7_NearestIsClosestLowestId ==
    \A p \in Usize :
        LET n == find_nearest_available_spot(spots, p)
        IN  n # 0 =>
                /\ IsAvailable(spots[n])
                /\ \A j \in FreeIdx(spots) :
                       /\ Abs(spots[j].id, p) >= Abs(spots[n].id, p)
                       /\ Abs(spots[j].id, p) = Abs(spots[n].id, p)
                              => spots[n].id <= spots[j].id

\* The search answered where two Free spots are at the same distance.
C7_Witness ==
    /\ op = "find_nearest_available_spot"
    /\ result = "Some"
    /\ \E j \in FreeIdx(spots) :
           /\ spots[j].id # ret[1]
           /\ Abs(spots[j].id, arg[1]) = Abs(ret[1], arg[1])

\* C8: park_car_in_spot(id) fails with "Invalid spot ID" when id >= capacity,
\* else succeeds and marks the spot Occupied when the spot is Free, else
\* fails with "Spot already occupied or reserved".
C8_ParkCarInSpot ==
    [][op' = "park_car_in_spot" =>
        LET id == arg'[1]
        IN  IF id >= Len(spots)
            THEN result' = ErrInvalidId /\ spots' = spots
            ELSE IF IsAvailable(SpotWithId(spots, id))
                 THEN /\ result' = "Ok"
                      /\ Status(SpotWithId(spots', id)) = "Occupied"
                 ELSE /\ result' = ErrUnavailable
                      /\ spots' = spots]_vars

\* park_car_in_spot was refused on a reserved spot.
C8_Witness ==
    /\ op = "park_car_in_spot"
    /\ result = ErrUnavailable
    /\ arg[1] \in DOMAIN reservations

\* C9: remove_car(id) succeeds and makes the spot Free exactly when id is in
\* range and the spot is Occupied; for an id out of range, a Free spot and a
\* Reserved spot it fails with "Spot not found or already empty", and a
\* Reserved spot keeps its flag and its reservation entry.
C9_RemoveCar ==
    [][op' = "remove_car" =>
        LET id == arg'[1]
        IN  IF id < Len(spots) /\ Status(SpotWithId(spots, id)) = "Occupied"
            THEN /\ result' = "Ok"
                 /\ IsAvailable(SpotWithId(spots', id))
            ELSE /\ result' = ErrNotFound
                 /\ spots' = spots
                 /\ reservations' = reservations]_vars

\* remove_car was refused on a reserved spot, which is still reserved.
C9_Witness ==
    /\ op = "remove_car"
    /\ result = ErrNotFound
    /\ arg[1] \in DOMAIN reservations
    /\ Status(SpotWithId(spots, arg[1])) = "Reserved"

\* C10: reserve_spot(id, details) fails with "Invalid spot ID" when
\* id >= capacity, else succeeds when the spot is Free, making it Reserved
\* with exactly details stored for id, else fails with "Spot already occupied
\* or reserved" and leaves the stored details as they were.
C10_ReserveSpot ==
    [][op' = "reserve_spot" =>
        LET id == arg'[1]
            d == arg'[2]
        IN  IF id >= Len(spots)
            THEN result' = ErrInvalidId /\ reservations' = reservations
            ELSE IF IsAvailable(SpotWithId(spots, id))
                 THEN /\ result' = "Ok"
                      /\ Status(SpotWithId(spots', id)) = "Reserved"
                      /\ id \in DOMAIN reservations'
                      /\ reservations'[id] = d
                      /\ DOMAIN reservations' = DOMAIN reservations \cup {id}
                 ELSE /\ result' = ErrUnavailable
                      /\ reservations' = reservations
                      /\ spots' = spots]_vars

\* reserve_spot was refused on a spot reserved with other details.
C10_Witness ==
    /\ op = "reserve_spot"
    /\ result = ErrUnavailable
    /\ arg[1] \in DOMAIN reservations
    /\ reservations[arg[1]] # arg[2]

\* C11: cancel_reservation(id) succeeds exactly when id is in range and the
\* spot is Reserved; the spot then becomes Free and its entry is removed. In
\* every other case (id out of range, spot Free, spot Occupied) it fails with
\* the one error "Invalid spot ID or spot not reserved".
C11_CancelReservation ==
    [][op' = "cancel_reservation" =>
        LET id == arg'[1]
        IN  IF id < Len(spots) /\ Status(SpotWithId(spots, id)) = "Reserved"
            THEN /\ result' = "Ok"
                 /\ IsAvailable(SpotWithId(spots', id))
                 /\ id \notin DOMAIN reservations'
            ELSE /\ result' = ErrNotReserved
                 /\ spots' = spots
                 /\ reservations' = reservations]_vars

\* cancel_reservation was refused for an id beyond the last spot.
C11_Witness ==
    /\ op = "cancel_reservation"
    /\ result = ErrNotReserved
    /\ arg[1] >= Len(spots)
    /\ Len(spots) > 0

\* C13: ParkingLot::new(n) yields exactly n spots with ids 0..n-1, all Free,
\* and an empty reservations map, for every n including 0.
C13_NewAllFree ==
    op = "new" =>
        /\ Len(spots) = arg[1]
        /\ \A i \in 1 .. Len(spots) :
               spots[i].id = i - 1 /\ ~spots[i].occupied /\ ~spots[i].reserved
        /\ DOMAIN reservations = {}

\* A lot of capacity 0 was constructed.
C13_Witness ==
    /\ op = "new"
    /\ arg = <<0>>
    /\ spots = <<>>

\* C14: no call changes the number of spots, and the spot at index i has
\* id i before and after every call, so a lookup by id field and a lookup by
\* index address the same spot.
C14_IdsAreIndices ==
    [][/\ Len(spots') = Len(spots)
       /\ \A i \in 1 .. Len(spots) : spots[i].id = i - 1
       /\ \A i \in 1 .. Len(spots') : spots'[i].id = i - 1
       /\ \A id \in Usize :
              id < Len(spots') =>
                  Find({k \in 1 .. Len(spots') : spots'[k].id = id}) = id + 1]_vars

\* remove_car found a spot other than the first by its id field.
C14_Witness ==
    /\ op = "remove_car"
    /\ result = "Ok"
    /\ arg[1] > 0
    /\ IsAvailable(spots[arg[1] + 1])

\* The flags of a spot as a status: Free, Occupied, Reserved, or Both.
Flags(spot) ==
    IF spot.occupied /\ spot.reserved THEN "Both"
    ELSE IF spot.occupied THEN "Occupied"
    ELSE IF spot.reserved THEN "Reserved"
    ELSE "Free"

\* C18: in one call the status of a spot changes only Free->Occupied,
\* Occupied->Free, Free->Reserved or Reserved->Free; never Reserved->Occupied
\* nor Occupied->Reserved.
C18_StatusTransitions ==
    [][\A i \in 1 .. Len(spots) :
           \/ Flags(spots'[i]) = Flags(spots[i])
           \/ <<Flags(spots[i]), Flags(spots'[i])>> \in
                  { <<"Free", "Occupied">>, <<"Occupied", "Free">>,
                    <<"Free", "Reserved">>, <<"Reserved", "Free">> }]_vars

\* reserve_spot was refused on an occupied spot, which is still occupied.
C18_Witness ==
    /\ op = "reserve_spot"
    /\ result = ErrUnavailable
    /\ Flags(SpotWithId(spots, arg[1])) = "Occupied"

\* C19: a successful park_car, park_car_in_spot, remove_car, reserve_spot or
\* cancel_reservation changes exactly one spot, the one it names or returns,
\* and no reservation entry of another id.
C19_OneSpotChanges ==
    [][(/\ result' = "Ok"
        /\ op' \in {"park_car", "park_car_in_spot", "remove_car",
                    "reserve_spot", "cancel_reservation"}) =>
        LET id == IF op' = "park_car" THEN ret'[1] ELSE arg'[1]
        IN  /\ Len(spots') = Len(spots)
            /\ \A i \in 1 .. Len(spots) :
                   (spots'[i] # spots[i]) <=> (spots[i].id = id)
            /\ \A k \in ((DOMAIN reservations) \cup (DOMAIN reservations')) \ {id} :
                   /\ k \in DOMAIN reservations
                   /\ k \in DOMAIN reservations'
                   /\ reservations'[k] = reservations[k]]_vars

\* A reservation was cancelled while another reservation and a parked car stay.
C19_Witness ==
    /\ op = "cancel_reservation"
    /\ result = "Ok"
    /\ Cardinality(DOMAIN reservations) >= 1
    /\ \E i \in 1 .. Len(spots) : spots[i].occupied

\* C20 (as claimed): for every position 0..usize::MAX the nearest-spot search
\* returns None if and only if no spot is Free.
C20_NoneIffNoFreeSpot ==
    \A p \in Usize :
        (find_nearest_available_spot(spots, p) = 0) <=> (FreeIdx(spots) = {})

\* C12: in every reachable state, for every Free spot id and every details,
\* reserve_spot(id, details) and then cancel_reservation(id) both succeed and
\* give back the spots and the reservations map of before the reserve; and
\* whenever a cancel_reservation(id) followed a successful reserve_spot(id),
\* the registry is the one of before the reserve.
C12_ReserveCancelRoundTrip ==
    /\ \A id \in Usize, d \in Details :
           (id < Len(spots) /\ IsAvailable(SpotWithId(spots, id))) =>
               LET reserved == reserve_spot(spots, reservations, id, d)
                   cancelled == cancel_reservation(reserved.spots,
                                                   reserved.reservations, id)
               IN  /\ reserved.result = "Ok"
                   /\ cancelled.result = "Ok"
                   /\ cancelled.spots = spots
                   /\ cancelled.reservations = reservations
    /\ trip.stage = "cancelled" =>
           /\ result = "Ok"
           /\ spots = trip.spots
           /\ reservations = trip.reservations

\* A reserve_spot was cancelled by the next call, beside another reservation.
C12_Witness ==
    /\ trip.stage = "cancelled"
    /\ op = "cancel_reservation"
    /\ arg = <<trip.id>>
    /\ DOMAIN reservations # {}

\* The step read a line at a numeric prompt and the line did not parse.
ParseFailed ==
    /\ pc \in {"menu", "spot"}
    /\ pc' # "panicked"
    /\ (IF pc = "menu" THEN ParseChoice(line') ELSE ParseUsize(line')) = <<>>

\* C15: when the line read for the menu choice, the spot number or the
\* position does not parse, the loop is back at the menu and every spot and
\* the reservations map are as before.
C15_ParseFailureAbandons ==
    [][ParseFailed =>
           /\ pc' = "menu"
           /\ spots' = spots
           /\ reservations' = reservations]_vars

\* A position did not parse while the lot holds a car and a reservation.
C15_Witness ==
    /\ pc = "menu"
    /\ out = <<MsgInvalidPosition>>
    /\ ParseUsize(line) = <<>>
    /\ DOMAIN reservations # {}
    /\ \E i \in 1 .. Len(spots) : spots[i].occupied

\* C16 (as claimed): every parse failure, that of the menu choice included,
\* prints an invalid-input message before the menu is shown again.
C16_ParseFailureIsReported ==
    [][ParseFailed =>
           /\ out' # <<>>
           /\ out'[1] \in {MsgInvalidSpot, MsgInvalidPosition, MsgInvalidChoice}]_vars

\* C17 (as claimed): the loop is left only by menu choice 8; no other input,
\* and no failed read, ends or crashes the program.
C17_LeavesLoopOnlyOnExit ==
    [][(pc \in {"menu", "spot", "details"} /\ pc' \notin {"menu", "spot", "details"})
           => (pc' = "exited" /\ choice' = <<8>>)]_vars

====
